---- MODULE Spec2Model ----
(***************************************************************************)
(* Model of entrypoint.py: the pull-request driven override/build          *)
(* pipeline.  Strings are sequences of atoms: the whitespace characters    *)
(* SP, TAB and NL, the marker "deps:", and whitespace-free words.  A token  *)
(* (the result of str.split(" ")) is therefore a sequence of atoms, and a  *)
(* component name such as jicoco is the one-atom token <<"jicoco">>.       *)
(***************************************************************************)
EXTENDS Integers, Sequences, FiniteSets, TLC

VARIABLES pc, event_action, pr_body, deps, overridden_components,
          overridden_versions, build_pos, trace, stdout, logs, exit_status

vars == <<pc, event_action, pr_body, deps, overridden_components,
          overridden_versions, build_pos, trace, stdout, logs, exit_status>>

(* ---------------------------- bounds ----------------------------------- *)

MaxLines == 3

MaxParseLines == 3

(* ------------------------- string helpers ------------------------------ *)

SP == " "
TAB == "\t"
NL == "\n"
Marker == "deps:"

Whitespace == {SP, TAB, NL}

Range(s) == {s[i] : i \in 1..Len(s)}

\* str.split(sep) for a one-atom separator: always at least one part,
\* empty parts are kept.
RECURSIVE SplitOn(_, _)
SplitOn(s, sep) ==
    IF sep \notin Range(s)
    THEN <<s>>
    ELSE LET i == CHOOSE k \in 1..Len(s) :
                     /\ s[k] = sep
                     /\ \A j \in 1..(k - 1) : s[j] # sep
         IN <<SubSeq(s, 1, i - 1)>> \o SplitOn(SubSeq(s, i + 1, Len(s)), sep)

\* str.strip(): drops leading and trailing whitespace.
RECURSIVE Strip(_)
Strip(s) ==
    IF s = <<>> THEN s
    ELSE IF Head(s) \in Whitespace THEN Strip(Tail(s))
    ELSE IF s[Len(s)] \in Whitespace THEN Strip(SubSeq(s, 1, Len(s) - 1))
    ELSE s

RECURSIVE JoinLines(_)
JoinLines(ls) ==
    IF ls = <<>> THEN <<>>
    ELSE IF Len(ls) = 1 THEN ls[1]
    ELSE ls[1] \o <<NL>> \o JoinLines(Tail(ls))

(* ------------------- dict (insertion ordered) -------------------------- *)

DictKeys(d) == {d[i][1] : i \in 1..Len(d)}

InDictNever(k, d) == FALSE

InDictAlways(k, d) == TRUE

InDict(k, d) == k \in DictKeys(d)

DictGet(d, k) == (CHOOSE i \in 1..Len(d) : d[i][1] = k)

DictValue(d, k) == d[DictGet(d, k)][2]

DictSet(d, k, v) ==
    IF k \in DictKeys(d)
    THEN [i \in 1..Len(d) |-> IF d[i][1] = k THEN <<k, v>> ELSE d[i]]
    ELSE Append(d, <<k, v>>)

(* --------------------------- messages ---------------------------------- *)

\* A printed line: level ("info", "error", or "out" for the raw output of
\* an external command), text and the subject it is about.
Msg(level, text, subject) == <<level, text, subject>>

\* info()/error() print to sys.stdout, and subprocess.run(stdout=sys.stdout)
\* writes there too; inside "with redirect_stdout(f)" sys.stdout is the log
\* file, so nothing printed there reaches the process's stdout.
print_target_unredirected(redirected) == "stdout"

print_target(redirected) == IF redirected THEN "file" ELSE "stdout"

(* --------------------------- parse_deps -------------------------------- *)

StripAll(ls) == [i \in 1..Len(ls) |-> Strip(ls[i])]

\* One iteration of the loop of parse_deps: the 4-tuple unpacking succeeds
\* exactly when the line splits into four tokens; the first is discarded.
parse_line(d, line) ==
    LET toks == SplitOn(line, SP)
    IN IF Len(toks) = 4 THEN DictSet(d, toks[2], <<toks[3], toks[4]>>) ELSE d

parse_line_msg(line) ==
    LET toks == SplitOn(line, SP)
    IN IF Len(toks) = 4 THEN Msg("info", "Will use", toks[2])
       ELSE Msg("info", "invalid line", line)

RECURSIVE ParseLines(_, _)
ParseLines(lines, d) ==
    IF lines = <<>> THEN d
    ELSE ParseLines(Tail(lines), parse_line(d, Head(lines)))

\* the variant in which the ValueError of a malformed line ends the loop
RECURSIVE ParseLinesStop(_, _)
ParseLinesStop(lines, d) ==
    IF lines = <<>> THEN d
    ELSE IF Len(SplitOn(Head(lines), SP)) # 4 THEN d
    ELSE ParseLinesStop(Tail(lines), parse_line(d, Head(lines)))

parse_deps_stop(s) == ParseLinesStop(StripAll(SplitOn(s, NL)), <<>>)

parse_deps(s) == ParseLines(StripAll(SplitOn(s, NL)), <<>>)

parse_deps_msgs(s) ==
    LET lines == StripAll(SplitOn(s, NL))
    IN [i \in 1..Len(lines) |-> parse_line_msg(lines[i])]

(* ----------------------------- events ---------------------------------- *)

NoTok == <<>>

Event(op, comp, a, b, dir, rc) ==
    [op |-> op, comp |-> comp, a |-> a, b |-> b, dir |-> dir, rc |-> rc]

\* os.path.join for a relative second part
PathJoin(dir, name) == dir \o <<"/">> \o name

CloneUrl(repo) == <<"https://github.com/">> \o repo \o <<".git">>

checkout_dir_by_repo(component_name, repo, branch_name, checkout_dir, rc) ==
    Event("clone", component_name, CloneUrl(repo), branch_name,
          PathJoin(checkout_dir, repo), rc)

\* git.Repo.clone_from(url, join(checkout_dir, component_name), branch, depth=1)
checkout_component(component_name, repo, branch_name, checkout_dir, rc) ==
    Event("clone", component_name, CloneUrl(repo), branch_name,
          PathJoin(checkout_dir, component_name), rc)

(* ------------------------- build order --------------------------------- *)

JitsiUtils == <<"jitsi-utils">>
Jicoco == <<"jicoco">>
Rtp == <<"rtp">>
Jmt == <<"jitsi-media-transform">>
Jvb == <<"jitsi-videobridge">>

Step(name, record) ==
    [name |-> name, dir |-> <<".", "/">> \o name, record |-> record]

BuildStepsSwapped ==
    << Step(Jicoco, TRUE), Step(JitsiUtils, TRUE), Step(Rtp, TRUE),
       Step(Jmt, TRUE), Step(Jvb, FALSE) >>

\* The five "if ... in overridden_components" blocks of build_components, in
\* program order; the last one does not record the version it built.
BuildSteps ==
    << Step(JitsiUtils, TRUE), Step(Jicoco, TRUE), Step(Rtp, TRUE),
       Step(Jmt, TRUE), Step(Jvb, FALSE) >>

(* ------------------------ build_component ------------------------------ *)

\* exit status of sys.exit(1) in fail() and retrieve_pr_body; an uncaught
\* exception ends the interpreter with the same status.
FailStatus == 1

SuccessStatus == 0

\* exit_status while the process is still running
NotExited == -1

build_failed_never(returncode) == FALSE

\* "if result.returncode != 0: fail(...)"
build_failed(returncode) == returncode # 0

PomDir(component_dir) == component_dir

update_maven_deps_skip_first(versions, component_dir) ==
    [i \in 1..(Len(versions) - 1) |->
        Event("edit", NoTok, versions[i + 1][1], versions[i + 1][2],
              PomDir(component_dir), 0)]

\* one xmlstarlet edit of component_dir/pom.xml per entry of the dict, in
\* insertion order; the return code of the edit is only logged.
update_maven_deps(versions, component_dir) ==
    [i \in 1..Len(versions) |->
        Event("edit", NoTok, versions[i][1], versions[i][2],
              PomDir(component_dir), 0)]

\* what one iteration of update_maven_deps prints; the last line is the
\* output of git diff, missing when git diff raised
update_msgs(ev, diff_ok) ==
    << Msg("info", "Setting version", ev.a),
       Msg("info", "Running command", ev.a),
       Msg("out", "xmlstarlet ed", ev.a),
       Msg("info", "Substitution command ran", ev.a),
       Msg("info", "Running git diff", ev.a) >>
    \o (IF diff_ok THEN <<Msg("info", "git diff", ev.a)>> ELSE <<>>)

RECURSIVE Flatten(_)
Flatten(ss) == IF ss = <<>> THEN <<>> ELSE Head(ss) \o Flatten(Tail(ss))

\* The outcomes the environment can produce for one build_component call
\* that performs n substitutions: git diff raises in substitution k; or the
\* build tool returns rc; or reading the version back raises; or it yields v.
Versions == {<<"1.0-SNAPSHOT">>, <<"1.1-SNAPSHOT">>}

Outcomes(n) ==
    {[k |-> k, rc |-> 0, vok |-> TRUE, version |-> NoTok] : k \in 1..n}
    \cup {[k |-> 0, rc |-> 1, vok |-> TRUE, version |-> NoTok],
          [k |-> 0, rc |-> 0, vok |-> FALSE, version |-> NoTok]}
    \cup {[k |-> 0, rc |-> 0, vok |-> TRUE, version |-> v] : v \in Versions}

\* build_component: everything it does, as the events it causes, the lines
\* it prints, whether the process ends in it, and the version it returns.
build_component(component_dir, versions, out) ==
    LET edits == update_maven_deps(versions, component_dir)
        done == IF out.k > 0 THEN SubSeq(edits, 1, out.k) ELSE edits
        editMsgs == Flatten([i \in 1..Len(done) |->
                        update_msgs(done[i], ~(out.k > 0 /\ i = out.k))])
        mvn == Event("mvn", NoTok, NoTok, NoTok, component_dir, out.rc)
        mvnMsgs == << Msg("info", "Running command", component_dir),
                      Msg("out", "mvn install", component_dir),
                      Msg("info", "Build finished", component_dir) >>
    IN IF out.k > 0
       THEN [events |-> done, msgs |-> editMsgs, exits |-> TRUE,
             version |-> NoTok]
       ELSE IF build_failed(out.rc)
       THEN [events |-> done \o <<mvn>>,
             msgs |-> editMsgs \o mvnMsgs
                      \o <<Msg("error", "Error building", component_dir)>>,
             exits |-> TRUE, version |-> NoTok]
       ELSE IF ~out.vok
       THEN [events |-> done \o <<mvn,
                  Event("version", NoTok, NoTok, NoTok, component_dir, 1)>>,
             msgs |-> editMsgs \o mvnMsgs
                  \o <<Msg("info", "Getting component version", component_dir)>>,
             exits |-> TRUE, version |-> NoTok]
       ELSE [events |-> done \o <<mvn,
                  Event("version", NoTok, NoTok, out.version, component_dir, 0)>>,
             msgs |-> editMsgs \o mvnMsgs
                  \o << Msg("info", "Getting component version", component_dir),
                        Msg("info", "Got version", component_dir) >>,
             exits |-> FALSE, version |-> out.version]

(* ----------------------------- inputs ---------------------------------- *)

W4(a, b, c, d) == <<a, SP, b, SP, c, SP, d>>

\* The lines the PR bodies of the pipeline are made of: one override per
\* known component, an override of an unknown component, and a second
\* override of rtp with another repository, branch and keyword.
LineSet ==
    { W4("use", "jitsi-utils", "org/repo", "main"),
      W4("use", "jicoco", "org/repo", "main"),
      W4("use", "rtp", "org/repo", "main"),
      W4("use", "jitsi-media-transform", "org/repo", "main"),
      W4("use", "jitsi-videobridge", "org/repo", "main"),
      W4("use", "zzz", "org/repo", "main"),
      W4("foo", "rtp", "fork/repo", "fix") }

LineSeqs == UNION {[1..k -> LineSet] : k \in 0..MaxLines}

Body(hasMarker, text) ==
    <<"Description", NL>> \o (IF hasMarker THEN <<Marker>> ELSE <<>>) \o text

\* The bodies load_pr can return: with or without the marker.  (A PR whose
\* body is null ends the run at the same statement as one without marker.)
Bodies == {Body(m, JoinLines(ls)) : m \in BOOLEAN, ls \in LineSeqs}

\* The lines of the texts parse_deps is applied to on its own: overrides of
\* two known components and an unknown one, second overrides with other
\* values, one of them padded with whitespace and one with a keyword other
\* than "use", and malformed lines: three tokens, five tokens, a tab in
\* place of a space, a double space (four tokens, the second one empty) and
\* the empty line.
ParseLineSet ==
    { W4("use", "jicoco", "org/repo", "main"),
      W4("use", "rtp", "org/repo", "main"),
      W4("use", "zzz", "org/repo", "main"),
      W4("use", "jicoco", "fork/repo", "fix"),
      W4("foo", "rtp", "fork/repo", "fix"),
      <<SP>> \o W4("use", "jitsi-utils", "fork/repo", "fix") \o <<TAB>>,
      <<"use", SP, "rtp", SP, "org/repo">>,
      W4("use", "rtp", "org/repo", "main") \o <<SP, "please">>,
      <<"use", TAB, "rtp", SP, "org/repo", SP, "main">>,
      <<"use", SP, SP, "rtp", SP, "main">>,
      <<>> }

ParseTexts == {JoinLines(ls) : ls \in UNION {[1..k -> ParseLineSet] : k \in 0..MaxParseLines}}

EventActions == {"synchronize", "opened", "edited", "closed", "created"}

HandledActionsWithoutEdited == {"synchronize", "opened"}

\* retrieve_pr_body: the actions for which the PR is loaded
HandledActions == {"synchronize", "opened", "edited"}

LogDirs == {BuildSteps[i].dir : i \in 1..Len(BuildSteps)}

(* ------------------------------ state ---------------------------------- *)

Init ==
    /\ pc = "retrieve"
    /\ event_action \in EventActions
    /\ pr_body = <<>>
    /\ deps = <<>>
    /\ overridden_components = <<>>
    /\ overridden_versions = <<>>
    /\ build_pos = 0
    /\ trace = <<>>
    /\ stdout = <<Msg("info", "loaded event info", <<event_action>>)>>
    /\ logs = [d \in LogDirs |-> <<>>]
    /\ exit_status = NotExited

Exit(status) ==
    /\ pc' = "exit"
    /\ exit_status' = status

(* ----------------------------- __main__ -------------------------------- *)

\* retrieve_pr_body, else branch: sys.exit(1)
RetrieveUnhandled ==
    /\ pc = "retrieve"
    /\ event_action \notin HandledActions
    /\ stdout' = Append(stdout, Msg("info", "Unhandled event action type",
                                    <<event_action>>))
    /\ Exit(FailStatus)
    /\ UNCHANGED <<event_action, pr_body, deps, overridden_components,
                   overridden_versions, build_pos, trace, logs>>

\* load_pr: raise_for_status() raises
RetrieveHttpError ==
    /\ pc = "retrieve"
    /\ event_action \in HandledActions
    /\ trace' = Append(trace, Event("get", NoTok, NoTok, NoTok, NoTok, 1))
    /\ stdout' = Append(stdout, Msg("info", "Retrieving PR information", NoTok))
    /\ Exit(FailStatus)
    /\ UNCHANGED <<event_action, pr_body, deps, overridden_components,
                   overridden_versions, build_pos, logs>>

\* load_pr returns the PR, whose body is any of Bodies
RetrievePrBody ==
    /\ pc = "retrieve"
    /\ event_action \in HandledActions
    /\ \E body \in Bodies :
        /\ pr_body' = body
        /\ stdout' = stdout \o << Msg("info", "Retrieving PR information", NoTok),
                                  Msg("info", "Got pr body", NoTok) >>
    /\ trace' = Append(trace, Event("get", NoTok, NoTok, NoTok, NoTok, 0))
    /\ pc' = "split"
    /\ UNCHANGED <<event_action, deps, overridden_components,
                   overridden_versions, build_pos, logs, exit_status>>

\* deps = pr_body.split("deps:")[1]; IndexError without the marker
SplitDeps ==
    /\ pc = "split"
    /\ LET parts == SplitOn(pr_body, Marker)
       IN IF Len(parts) < 2
          THEN /\ Exit(FailStatus)
               /\ UNCHANGED <<deps, stdout>>
          ELSE /\ deps' = parts[2]
               /\ stdout' = Append(stdout, Msg("info", "Got deps string", NoTok))
               /\ pc' = "parse"
               /\ UNCHANGED exit_status
    /\ UNCHANGED <<event_action, pr_body, overridden_components,
                   overridden_versions, build_pos, trace, logs>>

ParseDeps ==
    /\ pc = "parse"
    /\ overridden_components' = parse_deps(deps)
    /\ stdout' = stdout \o parse_deps_msgs(deps)
    /\ trace' = Append(trace, Event("parse", NoTok, NoTok, NoTok, NoTok, 0))
    /\ pc' = "checkout"
    /\ UNCHANGED <<event_action, pr_body, deps, overridden_versions,
                   build_pos, logs, exit_status>>

NumCloned == Len(SelectSeq(trace, LAMBDA e : e.op = "clone"))

\* one iteration of the loop of checkout_overridden_components; the clone
\* succeeds (rc = 0) or raises (rc = 1)
CheckoutNext ==
    /\ pc = "checkout"
    /\ NumCloned < Len(overridden_components)
    /\ LET entry == overridden_components[NumCloned + 1]
       IN \E rc \in {0, 1} :
            /\ trace' = Append(trace,
                   checkout_component(entry[1], entry[2][1], entry[2][2],
                                      <<".">>, rc))
            /\ stdout' = Append(stdout, Msg("info", "Checking out", entry[1]))
            /\ IF rc # 0
               THEN Exit(FailStatus)
               ELSE UNCHANGED <<pc, exit_status>>
    /\ UNCHANGED <<event_action, pr_body, deps, overridden_components,
                   overridden_versions, build_pos, logs>>

\* the loop is over; build_components starts with os.mkdir("logs"), which
\* raises when the directory exists
MkdirLogs ==
    /\ pc = "checkout"
    /\ NumCloned = Len(overridden_components)
    /\ \E rc \in {0, 1} :
        /\ trace' = Append(trace, Event("mkdir", NoTok, NoTok, NoTok,
                                        <<"logs">>, rc))
        /\ IF rc # 0
           THEN /\ Exit(FailStatus)
                /\ UNCHANGED build_pos
           ELSE /\ pc' = "build"
                /\ build_pos' = 1
                /\ UNCHANGED exit_status
    /\ UNCHANGED <<event_action, pr_body, deps, overridden_components,
                   overridden_versions, stdout, logs>>

\* after block i: the next block, or the end of the program
Advance(i) ==
    IF i < Len(BuildSteps)
    THEN /\ build_pos' = i + 1
         /\ UNCHANGED <<pc, exit_status>>
    ELSE /\ build_pos' = i
         /\ Exit(SuccessStatus)

\* block i of build_components
BuildStep(i) ==
    /\ pc = "build"
    /\ build_pos = i
    /\ LET st == BuildSteps[i]
       IN IF ~InDict(st.name, overridden_components)
          THEN /\ Advance(i)
               /\ UNCHANGED <<overridden_versions, trace, stdout, logs>>
          ELSE \E out \in Outcomes(Len(overridden_versions)) :
                 LET r == build_component(st.dir, overridden_versions, out)
                     toFile == print_target(TRUE) = "file"
                 IN /\ trace' = trace \o r.events
                    /\ stdout' = Append(stdout, Msg("info", "Building", st.name))
                                 \o (IF toFile THEN <<>> ELSE r.msgs)
                    /\ logs' = [logs EXCEPT ![st.dir] =
                                   IF toFile THEN r.msgs ELSE <<>>]
                    /\ IF r.exits
                       THEN /\ Exit(FailStatus)
                            /\ UNCHANGED <<build_pos, overridden_versions>>
                       ELSE /\ overridden_versions' =
                                 IF st.record
                                 THEN DictSet(overridden_versions, st.name,
                                              r.version)
                                 ELSE overridden_versions
                            /\ Advance(i)
    /\ UNCHANGED <<event_action, pr_body, deps, overridden_components>>

BuildJitsiUtils == BuildStep(1)
BuildJicoco == BuildStep(2)
BuildRtp == BuildStep(3)
BuildJmt == BuildStep(4)
BuildJvb == BuildStep(5)

Next ==
    \/ RetrieveUnhandled
    \/ RetrieveHttpError
    \/ RetrievePrBody
    \/ SplitDeps
    \/ ParseDeps
    \/ CheckoutNext
    \/ MkdirLogs
    \/ BuildJitsiUtils
    \/ BuildJicoco
    \/ BuildRtp
    \/ BuildJmt
    \/ BuildJvb

Spec == Init /\ [][Next]_vars

(* parse_deps on its own: the program has just computed the deps text of a  *)
(* PR whose body carries the marker, and applies parse_deps to it.          *)
InitParse ==
    /\ pc = "parse"
    /\ event_action = "opened"
    /\ deps \in ParseTexts
    /\ pr_body = Body(TRUE, deps)
    /\ overridden_components = <<>>
    /\ overridden_versions = <<>>
    /\ build_pos = 0
    /\ trace = <<Event("get", NoTok, NoTok, NoTok, NoTok, 0)>>
    /\ stdout = << Msg("info", "loaded event info", <<event_action>>),
                   Msg("info", "Retrieving PR information", NoTok),
                   Msg("info", "Got pr body", NoTok),
                   Msg("info", "Got deps string", NoTok) >>
    /\ logs = [d \in LogDirs |-> <<>>]
    /\ exit_status = NotExited

NextParse == ParseDeps

SpecParse == InitParse /\ [][NextParse]_vars

TypeOK ==
    /\ pc \in {"retrieve", "split", "parse", "checkout", "build", "exit"}
    /\ exit_status \in {NotExited, SuccessStatus, FailStatus}
    /\ build_pos \in 0..Len(BuildSteps)

(* ------------------------ properties ----------------------------------- *)

\* The fixed precedence list, as the specification states it.
PrecedenceList ==
    << <<"jitsi-utils">>, <<"jicoco">>, <<"rtp">>,
       <<"jitsi-media-transform">>, <<"jitsi-videobridge">> >>

KnownNames == Range(PrecedenceList)

DirOf(name) == <<".", "/">> \o name

Pos(dir) == CHOOSE p \in 1..Len(PrecedenceList) : DirOf(PrecedenceList[p]) = dir

Idx(op) == {i \in 1..Len(trace) : trace[i].op = op}

Overridden == DictKeys(overridden_components)

Parsed == Idx("parse") # {}

\* indices of the events that edit a descriptor or invoke a build command
BuildIdx == Idx("edit") \cup Idx("mvn")

\* D's build succeeded and its version was read back, all before index i
BuiltBefore(name, i) ==
    \E j \in Idx("mvn") :
        /\ trace[j].dir = DirOf(name)
        /\ trace[j].rc = 0
        /\ j + 1 < i
        /\ trace[j + 1].op = "version"
        /\ trace[j + 1].dir = DirOf(name)
        /\ trace[j + 1].rc = 0

VersionOf(name) ==
    trace[CHOOSE j \in Idx("version") :
              trace[j].dir = DirOf(name) /\ trace[j].rc = 0].b

\* C1: a build command that returns a non-zero exit code is the last thing
\* the run does: no descriptor edit and no build command follows it, and the
\* process has ended with a failure status.
C1_AbortOnBuildFailure ==
    \A i \in Idx("mvn") :
        trace[i].rc # 0 =>
            /\ \A j \in BuildIdx \cup Idx("version") : j <= i
            /\ pc = "exit"
            /\ exit_status = 1

C1_Witness ==
    \E i \in Idx("mvn") :
        /\ trace[i].rc # 0
        /\ \E p \in 1..Len(PrecedenceList) :
              /\ p > Pos(trace[i].dir)
              /\ PrecedenceList[p] \in Overridden

\* C2: the build invocations of a run form a subsequence of the fixed
\* precedence list: each is a known component, built at most once, after
\* every overridden component that precedes it in the list and before none.
C2_BuildOrderRespectsPrecedence ==
    /\ \A i \in Idx("mvn") : \E n \in KnownNames : trace[i].dir = DirOf(n)
    /\ \A i, j \in Idx("mvn") : i < j => Pos(trace[i].dir) < Pos(trace[j].dir)
    /\ \A i \in Idx("mvn") : \A p \in 1..Len(PrecedenceList) :
          (p < Pos(trace[i].dir) /\ PrecedenceList[p] \in Overridden)
              => \E j \in Idx("mvn") :
                    j < i /\ trace[j].dir = DirOf(PrecedenceList[p])

\* two builds whose override lines came in the opposite order
C2_Witness ==
    \E i, j \in Idx("mvn") : \E a, b \in 1..Len(overridden_components) :
        /\ i < j
        /\ a < b
        /\ trace[i].dir = DirOf(overridden_components[b][1])
        /\ trace[j].dir = DirOf(overridden_components[a][1])

UnknownOverridden == Overridden \ KnownNames

\* C3 as stated: an override of an unknown component aborts the run before
\* any build command is invoked.
C3_UnknownAbortsBeforeBuild ==
    (Parsed /\ UnknownOverridden # {}) =>
        /\ Idx("mvn") = {}
        /\ pc = "exit" => exit_status = 1

\* C3 amended: an unknown component is cloned like any other and then
\* ignored: no build is ever invoked for it, and a run that ends
\* successfully has built exactly the known overridden components.
C3_UnknownIgnoredByBuild ==
    /\ \A i \in BuildIdx :
          \E n \in KnownNames \cap Overridden : trace[i].dir = DirOf(n)
    /\ (pc = "exit" /\ exit_status = 0) =>
          /\ {trace[i].dir : i \in Idx("mvn")}
                = {DirOf(n) : n \in KnownNames \cap Overridden}
          /\ \A n \in UnknownOverridden :
                \E i \in Idx("clone") : trace[i].comp = n /\ trace[i].rc = 0

C3_Witness ==
    /\ pc = "exit"
    /\ exit_status = 0
    /\ UnknownOverridden # {}
    /\ Idx("mvn") # {}

\* C4: a substitution of dependency D is applied only if D is overridden
\* and D's build returned 0 and had its version read back earlier in the
\* run, and the value substituted is that version.
C4_SubstitutionOnlyAfterSuccessfulBuild ==
    \A i \in Idx("edit") :
        /\ trace[i].a \in Overridden
        /\ BuiltBefore(trace[i].a, i)
        /\ trace[i].b = VersionOf(trace[i].a)

C4_Witness ==
    \E i \in Idx("edit") : trace[i].a \in Overridden /\ i + 1 \in Idx("edit")

\* the lines of the deps text as parse_deps sees them, and their tokens
DepLines == StripAll(SplitOn(deps, NL))

Toks(i) == SplitOn(DepLines[i], SP)

WellFormed(i) == Len(Toks(i)) = 4

Count(seq, m) == Cardinality({k \in 1..Len(seq) : seq[k] = m})

\* C5: parsing never stops at a malformed line.  After parse_deps the run
\* goes on to the checkout; every line that does not split into exactly four
\* tokens left one "invalid line" message and no entry; and the mapping is
\* the one the well-formed lines alone produce: its keys are their
\* components, each mapped to the (repo, branch) of the last such line.
C5_MalformedLinesSkipped ==
    Parsed =>
        LET lines == DepLines
            toks == [i \in 1..Len(lines) |-> SplitOn(lines[i], SP)]
            wf == {i \in 1..Len(lines) : Len(toks[i]) = 4}
        IN /\ (trace[Len(trace)].op = "parse" => pc = "checkout")
           /\ Overridden = {toks[i][2] : i \in wf}
           /\ \A i \in wf :
                 (\A j \in wf : j > i => toks[j][2] # toks[i][2])
                    => DictValue(overridden_components, toks[i][2])
                          = <<toks[i][3], toks[i][4]>>
           /\ \A i \in 1..Len(lines) \ wf :
                 Count(stdout, <<"info", "invalid line", lines[i]>>)
                    = Count(lines, lines[i])

\* a malformed line between two well-formed ones, both of which are in the
\* result
C5_Witness ==
    /\ Parsed
    /\ \E i, j, k \in 1..Len(DepLines) :
          /\ i < j /\ j < k
          /\ WellFormed(i) /\ ~WellFormed(j) /\ WellFormed(k)
          /\ Toks(i)[2] # Toks(k)[2]
          /\ {Toks(i)[2], Toks(k)[2]} \subseteq Overridden
          /\ DictValue(overridden_components, Toks(i)[2])
                = <<Toks(i)[3], Toks(i)[4]>>

\* C6: every entry of the mapping comes from a line of the form
\* "use <component> <repo> <branch>"; a line whose first token is not "use"
\* adds or changes no entry.
C6_OnlyUseLinesProduceEntries ==
    Parsed =>
        LET lines == DepLines
            toks == [i \in 1..Len(lines) |-> SplitOn(lines[i], SP)]
        IN \A e \in 1..Len(overridden_components) :
              \E i \in 1..Len(lines) :
                  /\ Len(toks[i]) = 4
                  /\ toks[i][1] = <<"use">>
                  /\ toks[i][2] = overridden_components[e][1]
                  /\ <<toks[i][3], toks[i][4]>> = overridden_components[e][2]

\* the lines build_component prints for the build in directory d, given the
\* events of that build
BuildLines(d) ==
    {<<"info", "Running command", d>>, <<"out", "mvn install", d>>,
     <<"info", "Build finished", d>>}

EditLines(dep) ==
    {<<"info", "Setting version", dep>>, <<"out", "xmlstarlet ed", dep>>,
     <<"info", "Substitution command ran", dep>>}

\* C7 as stated: whatever is printed while a component is being built is in
\* the process's stdout and in the component's log file.
C7_LoggedToStdoutAndFile ==
    /\ \A i \in Idx("mvn") :
          /\ BuildLines(trace[i].dir) \subseteq Range(logs[trace[i].dir])
          /\ BuildLines(trace[i].dir) \subseteq Range(stdout)
    /\ \A i \in Idx("edit") :
          /\ EditLines(trace[i].a) \subseteq Range(logs[trace[i].dir])
          /\ EditLines(trace[i].a) \subseteq Range(stdout)

\* C7 amended: what build_component prints (messages and the output of the
\* external commands) is in that component's log file only, never in the
\* process's stdout; what is printed outside build_component, "Building
\* <component>" included, is in the process's stdout only.
C7_BuildLoggedToFileOnly ==
    (Idx("mvn") \cup Idx("edit") # {}) =>
    LET out == Range(stdout)
        file == [d \in LogDirs |-> Range(logs[d])]
    IN /\ \A i \in Idx("mvn") :
             LET d == trace[i].dir
             IN /\ BuildLines(d) \subseteq file[d]
                /\ BuildLines(d) \cap out = {}
                /\ trace[i].rc # 0 =>
                      /\ <<"error", "Error building", d>> \in file[d]
                      /\ <<"error", "Error building", d>> \notin out
                /\ \E n \in KnownNames :
                      /\ DirOf(n) = d
                      /\ <<"info", "Building", n>> \in out
                      /\ <<"info", "Building", n>> \notin file[d]
       /\ \A i \in Idx("edit") :
             /\ EditLines(trace[i].a) \subseteq file[trace[i].dir]
             /\ EditLines(trace[i].a) \cap out = {}
       /\ \A d \in LogDirs : \A m \in file[d] :
             m[2] \notin {"Will use", "invalid line", "Checking out",
                          "Got pr body", "Got deps string"}

C7_Witness ==
    \E i \in Idx("mvn") : \E j \in Idx("edit") :
        /\ trace[j].dir = trace[i].dir
        /\ trace[i].rc # 0

\* C8: before the build command of C runs, its descriptor has been edited
\* exactly once for each overridden component that precedes C in the fixed
\* order and was built earlier in the run, with the version read back after
\* that build; and the recorded versions are exactly those of the non-final
\* components built successfully so far.
C8_SubstitutionsBeforeBuild ==
    /\ \A i \in Idx("mvn") :
          LET d == trace[i].dir
              before == {n \in KnownNames : BuiltBefore(n, i)}
              edits == {j \in Idx("edit") : trace[j].dir = d}
          IN /\ \A j \in edits : j < i
             /\ {trace[j].a : j \in edits} = before
             /\ before = {PrecedenceList[p] :
                            p \in {q \in 1..(Pos(d) - 1) :
                                      PrecedenceList[q] \in Overridden}}
             /\ \A n \in before :
                   /\ Cardinality({j \in edits : trace[j].a = n}) = 1
                   /\ \A j \in edits :
                         trace[j].a = n => trace[j].b = VersionOf(n)
    /\ DictKeys(overridden_versions)
          = {n \in KnownNames :
                /\ n # PrecedenceList[Len(PrecedenceList)]
                /\ BuiltBefore(n, Len(trace) + 1)}
    /\ \A n \in DictKeys(overridden_versions) :
          DictValue(overridden_versions, n) = VersionOf(n)

C8_Witness ==
    \E i \in Idx("mvn") :
        /\ Cardinality({j \in Idx("edit") : trace[j].dir = trace[i].dir}) >= 2
        /\ \E j, k \in Idx("edit") :
              /\ trace[j].dir = trace[i].dir
              /\ trace[k].dir = trace[i].dir
              /\ trace[j].b # trace[k].b

Clones == SelectSeq(trace, LAMBDA e : e.op = "clone")

\* C9: no component is cloned twice; once the build stage has started every
\* entry of the mapping, known or not, has been cloned exactly once from
\* its repository and branch into ./<component>; every clone precedes every
\* build step; and a build is invoked only in a directory cloned in this run.
C9_ClonedOnceBeforeBuilds ==
    /\ \A i, j \in Idx("clone") : trace[i].comp = trace[j].comp => i = j
    /\ (pc = "build" \/ BuildIdx # {}) =>
          /\ Len(Clones) = Len(overridden_components)
          /\ \A k \in 1..Len(Clones) :
                LET e == overridden_components[k]
                IN /\ Clones[k].comp = e[1]
                   /\ Clones[k].a = <<"https://github.com/">> \o e[2][1] \o <<".git">>
                   /\ Clones[k].b = e[2][2]
                   /\ Clones[k].dir = <<".", "/">> \o e[1]
                   /\ Clones[k].rc = 0
    /\ \A i \in BuildIdx :
          /\ \A j \in Idx("clone") : j < i
          /\ \E j \in Idx("clone") :
                trace[j].dir = trace[i].dir /\ trace[j].rc = 0

C9_Witness ==
    /\ Idx("mvn") # {}
    /\ Len(Clones) >= 3
    /\ UnknownOverridden # {}

\* C10: the PR is requested exactly when the action is synchronize, opened
\* or edited; for any other action the process exits with status 1 and has
\* parsed, cloned and built nothing.
C10_OnlyHandledActionsProceed ==
    LET handled == event_action \in {"synchronize", "opened", "edited"}
    IN /\ pc # "retrieve" => (handled <=> Idx("get") # {})
       /\ trace # <<>> => handled
       /\ (~handled /\ pc # "retrieve") =>
             /\ pc = "exit"
             /\ exit_status = 1
             /\ trace = <<>>
             /\ overridden_components = <<>>

C10_Witness ==
    /\ event_action \notin {"synchronize", "opened", "edited"}
    /\ pc = "exit"
    /\ exit_status = 1

====
